---------------------------- MODULE Spec2Model ----------------------------
(***************************************************************************)
(* Freight quotation system (src/main.py): pricing strategies, additive   *)
(* service decorators, carrier factories, the LogSistema singleton and    *)
(* ServicoFrete.cotar_entrega.                                            *)
(*                                                                         *)
(* Every monetary value of the program is a Python float, an IEEE-754     *)
(* binary64 number.  TLC's integers are 32 bits wide, so a float is kept  *)
(* as sign, 53-bit significand and binary exponent, the significand being *)
(* a little-endian sequence of 15-bit limbs, and + and * round to nearest *)
(* with ties to even exactly as the hardware does.  Infinities, NaN and   *)
(* subnormals are outside the value ranges used here.                     *)
(***************************************************************************)
EXTENDS Integers, Sequences, FiniteSets, TLC

---------------------------------------------------------------------------
(* Natural numbers of any size: little-endian limb sequences, no leading  *)
(* zero limb, <<>> is 0.                                                  *)

Base == 2^15

MantBits == 53

Min(a, b) == IF a <= b THEN a ELSE b

\* F of the value of e, e being evaluated once however often F uses it
Seja(e, F(_)) == CHOOSE r \in {F(v) : v \in {e}} : TRUE

RECURSIVE BNorm(_)
BNorm(a) ==
    IF a = <<>> THEN a
    ELSE IF a[Len(a)] = 0 THEN BNorm(SubSeq(a, 1, Len(a) - 1))
    ELSE a

RECURSIVE BFromInt(_)
BFromInt(n) == IF n = 0 THEN <<>> ELSE <<n % Base>> \o BFromInt(n \div Base)

RECURSIVE BToIntAt(_, _)
BToIntAt(a, i) == IF i > Len(a) THEN 0 ELSE a[i] + Base * BToIntAt(a, i + 1)

BToInt(a) == BToIntAt(a, 1)

Limb(a, i) == IF i <= Len(a) THEN a[i] ELSE 0

RECURSIVE BAddAt(_, _, _, _)
BAddAt(a, b, i, c) ==
    IF i > Len(a) /\ i > Len(b)
    THEN (IF c = 0 THEN <<>> ELSE <<c>>)
    ELSE Seja(Limb(a, i) + Limb(b, i) + c,
              LAMBDA t : <<t % Base>> \o BAddAt(a, b, i + 1, t \div Base))

BAdd(a, b) == BAddAt(a, b, 1, 0)

RECURSIVE BSubAt(_, _, _, _)
BSubAt(a, b, i, c) ==
    IF i > Len(a) THEN <<>>
    ELSE Seja(a[i] - Limb(b, i) - c,
              LAMBDA t : IF t < 0 THEN <<t + Base>> \o BSubAt(a, b, i + 1, 1)
                         ELSE <<t>> \o BSubAt(a, b, i + 1, 0))

\* a - b for a >= b
BSub(a, b) == BNorm(BSubAt(a, b, 1, 0))

RECURSIVE BCmpAt(_, _, _)
BCmpAt(a, b, i) ==
    IF i = 0 THEN 0
    ELSE IF a[i] > b[i] THEN 1
    ELSE IF a[i] < b[i] THEN -1
    ELSE BCmpAt(a, b, i - 1)

BCmp(a, b) ==
    IF Len(a) > Len(b) THEN 1
    ELSE IF Len(a) < Len(b) THEN -1
    ELSE BCmpAt(a, b, Len(a))

RECURSIVE BMulSmallAt(_, _, _, _)
BMulSmallAt(a, k, i, c) ==
    IF i > Len(a)
    THEN (IF c = 0 THEN <<>> ELSE <<c>>)
    ELSE Seja(a[i] * k + c,
              LAMBDA t : <<t % Base>> \o BMulSmallAt(a, k, i + 1, t \div Base))

\* a * k for 0 <= k < Base
BMulSmall(a, k) == BNorm(BMulSmallAt(a, k, 1, 0))

BShlLimbs(a, n) ==
    Seja(a, LAMBDA v : IF v = <<>> THEN v ELSE [i \in 1..n |-> 0] \o v)

RECURSIVE BMulAt(_, _, _)
BMulAt(a, b, i) ==
    IF i > Len(b) THEN <<>>
    ELSE Seja(<<BShlLimbs(BMulSmall(a, b[i]), i - 1), BMulAt(a, b, i + 1)>>,
              LAMBDA v : BAdd(v[1], v[2]))

BMul(a, b) == BMulAt(a, b, 1)

\* the quotient's limbs from limb i down, then the remainder
RECURSIVE BDivAt(_, _, _, _)
BDivAt(a, d, i, r) ==
    IF i = 0 THEN [q |-> <<>>, r |-> r]
    ELSE Seja(r * Base + a[i], LAMBDA t :
         Seja(BDivAt(a, d, i - 1, t % d), LAMBDA rest :
              [q |-> Append(rest.q, t \div d), r |-> rest.r]))

\* quotient and remainder of a by d, 0 < d <= Base
BDivSmall(a, d) ==
    Seja(BDivAt(a, d, Len(a), 0), LAMBDA x : [q |-> BNorm(x.q), r |-> x.r])

BShl(a, k) == BShlLimbs(BMulSmall(a, 2^(k % 15)), k \div 15)

BShr(a, k) ==
    IF k \div 15 >= Len(a) THEN <<>>
    ELSE BDivSmall(SubSeq(a, (k \div 15) + 1, Len(a)), 2^(k % 15)).q

RECURSIVE IntBitLen(_)
IntBitLen(n) == IF n = 0 THEN 0 ELSE 1 + IntBitLen(n \div 2)

BBitLen(a) == IF a = <<>> THEN 0 ELSE 15 * (Len(a) - 1) + IntBitLen(a[Len(a)])

BIsOdd(a) == a # <<>> /\ a[1] % 2 = 1

\* a / 2^k rounded to the nearest natural, ties to the even one (k >= 0)
BShrRound(a, k) ==
    IF k = 0 THEN a
    ELSE Seja(BShr(a, k), LAMBDA q :
         Seja(BCmp(BSub(a, BShl(q, k)), BShl(<<1>>, k - 1)), LAMBDA c :
              IF c > 0 \/ (c = 0 /\ BIsOdd(q)) THEN BAdd(q, <<1>>) ELSE q))

---------------------------------------------------------------------------
(* binary64: the value (-1)^sgn * man * 2^exp, man = 0 or 2^52 <= man <   *)
(* 2^53.                                                                   *)

FZero(s) == [sgn |-> s, man |-> <<>>, exp |-> 0]

\* the float nearest to (-1)^s * m * 2^e, m being len > MantBits bits long
FRoundLongo(s, m, e, len) ==
    Seja(BShrRound(m, len - MantBits), LAMBDA q :
         IF BBitLen(q) > MantBits
         THEN [sgn |-> s, man |-> BShr(q, 1), exp |-> e + (len - MantBits) + 1]
         ELSE [sgn |-> s, man |-> q, exp |-> e + (len - MantBits)])

\* the float nearest to (-1)^s * m0 * 2^e
FRound(s, m0, e) ==
    Seja(m0, LAMBDA m :
         IF m = <<>> THEN FZero(s)
         ELSE Seja(BBitLen(m), LAMBDA len :
                   IF len <= MantBits
                   THEN [sgn |-> s, man |-> BShl(m, MantBits - len),
                         exp |-> e - (MantBits - len)]
                   ELSE FRoundLongo(s, m, e, len)))

\* the float a decimal literal or a parsed input n/d denotes (0 < d <= Base)
Lit(n, d) ==
    Seja(BDivSmall(BShl(BFromInt(IF n < 0 THEN -n ELSE n), 70), d), LAMBDA x :
         FRound(IF n < 0 THEN 1 ELSE 0,
                BAdd(BMulSmall(x.q, 2), IF x.r = 0 THEN <<>> ELSE <<1>>), -71))

\* x + y for floats x and y other than zero, e the lesser exponent
FAddNaoZero(x, y, e) ==
    Seja(<<BShl(x.man, x.exp - e), BShl(y.man, y.exp - e)>>, LAMBDA v :
    Seja(BCmp(v[1], v[2]), LAMBDA c :
         IF x.sgn = y.sgn THEN FRound(x.sgn, BAdd(v[1], v[2]), e)
         ELSE IF c = 0 THEN FZero(0)
         ELSE IF c > 0 THEN FRound(x.sgn, BSub(v[1], v[2]), e)
         ELSE FRound(y.sgn, BSub(v[2], v[1]), e)))

\* float + float
FAdd(x0, y0) ==
    Seja(<<x0, y0>>, LAMBDA v :
         IF v[1].man = <<>> /\ v[2].man = <<>>
         THEN FZero(IF v[1].sgn = 1 /\ v[2].sgn = 1 THEN 1 ELSE 0)
         ELSE IF v[1].man = <<>> THEN v[2]
         ELSE IF v[2].man = <<>> THEN v[1]
         ELSE FAddNaoZero(v[1], v[2], Min(v[1].exp, v[2].exp)))

\* float * float
FMul(x0, y0) ==
    Seja(<<x0, y0>>, LAMBDA v :
         FRound((v[1].sgn + v[2].sgn) % 2, BMul(v[1].man, v[2].man),
                v[1].exp + v[2].exp))

\* the order of the magnitudes of two floats
FCmpMag(x, y) ==
    IF x.man = <<>> /\ y.man = <<>> THEN 0
    ELSE IF x.man = <<>> THEN -1
    ELSE IF y.man = <<>> THEN 1
    ELSE IF x.exp > y.exp THEN 1
    ELSE IF x.exp < y.exp THEN -1
    ELSE BCmp(x.man, y.man)

\* -1, 0, 1 as x < y, x == y, x > y
FCmp(x0, y0) ==
    Seja(<<x0, y0>>, LAMBDA v :
         IF v[1].man = <<>> /\ v[2].man = <<>> THEN 0
         ELSE IF v[1].sgn = 0 /\ v[2].sgn = 1 THEN 1
         ELSE IF v[1].sgn = 1 /\ v[2].sgn = 0 THEN -1
         ELSE IF v[1].sgn = 0 THEN FCmpMag(v[1], v[2])
         ELSE -FCmpMag(v[1], v[2]))

FEq(x, y) == FCmp(x, y) = 0

FGt(x, y) == FCmp(x, y) > 0

\* the cents of format(x, ".2f"): the exact value rounded, ties to even
Centavos(x) ==
    Seja(BMulSmall(x.man, 100), LAMBDA t :
         BToInt(IF x.exp >= 0 THEN BShl(t, x.exp) ELSE BShrRound(t, -x.exp)))

\* format(x, ".2f")
Fmt2(x0) ==
    Seja(x0, LAMBDA x :
    Seja(Centavos(x), LAMBDA cents :
         (IF x.sgn = 1 THEN "-" ELSE "") \o ToString(cents \div 100) \o "."
         \o (IF cents % 100 < 10 THEN "0" ELSE "") \o ToString(cents % 100)))

---------------------------------------------------------------------------
(* Python's None, dict.get and dict[...]                                   *)

None == [classe |-> "NoneType"]

KeyError == [exc |-> "KeyError"]

DictGet(d, k, default) == IF k \in DOMAIN d THEN d[k] ELSE default

---------------------------------------------------------------------------
(* DOMAIN: Pacote                                                          *)

MaxDecimos == 3

Decimos(lo, hi) == {Lit(n, 10) : n \in lo..hi}

\* float(input(...)) accepts any decimal, negative ones included
Pesos == Decimos(-MaxDecimos, MaxDecimos) \cup {Lit(-2, 1), Lit(10, 1), Lit(15, 1)}

Volumes == Decimos(-1, MaxDecimos) \cup {Lit(5, 10), Lit(8, 10)}

Zonas == {"local", "regional", "nacional", "zona_inexistente", "Local"}

Rotas == {<<"São Paulo", "Curitiba">>, <<"SP", "SP">>}

Pacote(peso_kg, volume_m3, origem, destino, zona) ==
    [peso_kg |-> peso_kg, volume_m3 |-> volume_m3, origem |-> origem,
     destino |-> destino, zona |-> zona]

Pacotes ==
    {Pacote(w, v, r[1], r[2], z) : w \in Pesos, v \in Volumes, r \in Rotas, z \in Zonas}

---------------------------------------------------------------------------
(* STRATEGY PATTERN                                                        *)

FretePorZona ==
    [classe |-> "FretePorZona",
     tabela_zonas |-> ("local" :> Lit(1500, 100)) @@ ("regional" :> Lit(3500, 100))
                      @@ ("nacional" :> Lit(8000, 100))]

FretePorPeso ==
    [classe |-> "FretePorPeso", valor_por_kg |-> Lit(850, 100), taxa_base |-> Lit(1000, 100)]

FretePorVolume ==
    [classe |-> "FretePorVolume", valor_por_m3 |-> Lit(12000, 100),
     taxa_base |-> Lit(1200, 100)]

FreteJanelaExpresso ==
    [classe |-> "FreteJanelaExpresso", multiplicador_expresso |-> Lit(25, 10),
     frete_base |-> FretePorZona]

ZonaDefault == Lit(5000, 100)

\* faulty variant: the fallback of the lookup is the cheapest zone instead of 50.00
FretePorZona_calcular_SemDefault(self, pacote) ==
    DictGet(self.tabela_zonas, pacote.zona, self.tabela_zonas["local"])

FretePorZona_calcular(self, pacote) == DictGet(self.tabela_zonas, pacote.zona, ZonaDefault)

\* faulty variant: the rate is applied to the volume instead of the weight
FretePorPeso_calcular_Volume(self, pacote) ==
    FAdd(self.taxa_base, FMul(pacote.volume_m3, self.valor_por_kg))

FretePorPeso_calcular(self, pacote) ==
    FAdd(self.taxa_base, FMul(pacote.peso_kg, self.valor_por_kg))

FretePorVolume_calcular(self, pacote) ==
    FAdd(self.taxa_base, FMul(pacote.volume_m3, self.valor_por_m3))

\* faulty variant: the express multiplier is applied to the regional rate, whatever the zone
FreteJanelaExpresso_calcular_Regional(self, pacote) ==
    FMul(self.frete_base.tabela_zonas["regional"], self.multiplicador_expresso)

FreteJanelaExpresso_calcular(self, pacote) ==
    FMul(FretePorZona_calcular(self.frete_base, pacote), self.multiplicador_expresso)

\* estrategia.calcular(pacote), dispatched on the object's class
calcular(self, pacote) ==
    CASE self.classe = "FretePorZona" -> FretePorZona_calcular(self, pacote)
      [] self.classe = "FretePorPeso" -> FretePorPeso_calcular(self, pacote)
      [] self.classe = "FretePorVolume" -> FretePorVolume_calcular(self, pacote)
      [] self.classe = "FreteJanelaExpresso" -> FreteJanelaExpresso_calcular(self, pacote)

\* get_nome() of a strategy or of a carrier
get_nome(self) ==
    CASE self.classe = "FretePorZona" -> "Frete por Zona"
      [] self.classe = "FretePorPeso" -> "Frete por Peso"
      [] self.classe = "FretePorVolume" -> "Frete por Volume"
      [] self.classe = "FreteJanelaExpresso" -> "Frete Expresso (Janela)"
      [] self.classe = "TransportadoraEconomica" -> "TransLog Econômica"
      [] self.classe = "TransportadoraPadrao" -> "ExpressLog Padrão"
      [] self.classe = "TransportadoraExpresso" -> "RapidLog Express"

---------------------------------------------------------------------------
(* DECORATOR PATTERN.  A component is a record; a decorator's _frete is   *)
(* the component it wraps.                                                 *)

FromInt(n) == Lit(n, 1)

PedagiosDefault == 3

ValorDeclaradoDefault == Lit(100000, 100)

FreteBasico(valor_base, estrategia_nome) ==
    [classe |-> "FreteBasico", valor_base |-> valor_base,
     estrategia_nome |-> estrategia_nome]

ValorPedagio == Lit(850, 100)

PedagioDecorator(f, numero_pedagios) ==
    [classe |-> "PedagioDecorator", _frete |-> f,
     numero_pedagios |-> numero_pedagios, valor_pedagio |-> ValorPedagio]

PercentualSeguro == Lit(2, 100)

SeguroDecorator(f, valor_declarado) ==
    [classe |-> "SeguroDecorator", _frete |-> f,
     valor_declarado |-> valor_declarado, percentual_seguro |-> PercentualSeguro]

ValoresEmbalagem ==
    ("reforçada" :> Lit(2500, 100)) @@ ("térmica" :> Lit(4500, 100))
    @@ ("antiestática" :> Lit(5500, 100))

EmbalagemEspecialDecorator(f, tipo) ==
    [classe |-> "EmbalagemEspecialDecorator", _frete |-> f, tipo |-> tipo,
     valores |-> ValoresEmbalagem]

EmbalagemDefault == Lit(2500, 100)

\* faulty variant: an unknown kind of packaging costs nothing
custo_embalagem_Gratis(self) == DictGet(self.valores, self.tipo, FZero(0))

custo_pedagios(self) == FMul(FromInt(self.numero_pedagios), self.valor_pedagio)

custo_seguro(self) == FMul(self.valor_declarado, self.percentual_seguro)

custo_embalagem(self) == DictGet(self.valores, self.tipo, EmbalagemDefault)

RECURSIVE calcular_custo(_)
calcular_custo(self) ==
    CASE self.classe = "FreteBasico" -> self.valor_base
      [] self.classe = "PedagioDecorator" ->
            FAdd(calcular_custo(self._frete), custo_pedagios(self))
      [] self.classe = "SeguroDecorator" ->
            FAdd(calcular_custo(self._frete), custo_seguro(self))
      [] self.classe = "EmbalagemEspecialDecorator" ->
            FAdd(calcular_custo(self._frete), custo_embalagem(self))

\* the line a component contributes to the description
descricao_propria(self) ==
    CASE self.classe = "FreteBasico" -> "Frete calculado por: " \o self.estrategia_nome
      [] self.classe = "PedagioDecorator" ->
            "+ Pedágios (" \o ToString(self.numero_pedagios) \o "x): R$ "
            \o Fmt2(custo_pedagios(self))
      [] self.classe = "SeguroDecorator" ->
            "+ Seguro (R$ " \o Fmt2(self.valor_declarado) \o "): R$ "
            \o Fmt2(custo_seguro(self))
      [] self.classe = "EmbalagemEspecialDecorator" ->
            "+ Embalagem " \o self.tipo \o ": R$ " \o Fmt2(custo_embalagem(self))

\* faulty variant: a decorator puts its line in front of the wrapped component's lines
RECURSIVE get_descricao_NaFrente(_)
get_descricao_NaFrente(self) ==
    IF self.classe = "FreteBasico" THEN <<descricao_propria(self)>>
    ELSE <<descricao_propria(self)>> \o get_descricao_NaFrente(self._frete)

RECURSIVE get_descricao(_)
get_descricao(self) ==
    IF self.classe = "FreteBasico" THEN <<descricao_propria(self)>>
    ELSE Append(get_descricao(self._frete), descricao_propria(self))

\* a reference to the object of identity id
Objeto(classe, id) == [classe |-> classe, id |-> id]

\* faulty variant: no list is made while one exists; the first one is returned
FreteBasico_get_descricao_Guardada(self, ls) ==
    IF ls = <<>>
    THEN [retorno |-> Objeto("list", 1), listas |-> <<<<descricao_propria(self)>>>>]
    ELSE [retorno |-> Objeto("list", 1), listas |-> ls]

\* FreteBasico.get_descricao among the list objects ls: the new list it
\* returns and the list objects left
FreteBasico_get_descricao(self, ls) ==
    [retorno |-> Objeto("list", Len(ls) + 1),
     listas |-> Append(ls, <<descricao_propria(self)>>)]

\* self.get_descricao() among the list objects ls: a decorator appends its
\* line to the list the wrapped component returned and returns that list
RECURSIVE FreteComponent_get_descricao(_, _)
FreteComponent_get_descricao(self, ls) ==
    IF self.classe = "FreteBasico" THEN FreteBasico_get_descricao(self, ls)
    ELSE Seja(FreteComponent_get_descricao(self._frete, ls), LAMBDA r :
              [retorno |-> r.retorno,
               listas |-> [r.listas EXCEPT ![r.retorno.id] =
                                              Append(@, descricao_propria(self))]])

---------------------------------------------------------------------------
(* FACTORY METHOD PATTERN                                                  *)

TransportadoraEconomica == [classe |-> "TransportadoraEconomica"]

TransportadoraPadrao == [classe |-> "TransportadoraPadrao"]

TransportadoraExpresso == [classe |-> "TransportadoraExpresso"]

get_prazo_dias(self) ==
    CASE self.classe = "TransportadoraEconomica" -> 10
      [] self.classe = "TransportadoraPadrao" -> 5
      [] self.classe = "TransportadoraExpresso" -> 2

MultiplicadorEconomica == Lit(10, 10)

MultiplicadorPadrao == Lit(13, 10)

MultiplicadorExpresso == Lit(18, 10)

get_multiplicador_preco(self) ==
    CASE self.classe = "TransportadoraEconomica" -> MultiplicadorEconomica
      [] self.classe = "TransportadoraPadrao" -> MultiplicadorPadrao
      [] self.classe = "TransportadoraExpresso" -> MultiplicadorExpresso

FactoryEconomica == [classe |-> "FactoryEconomica"]

FactoryPadrao == [classe |-> "FactoryPadrao"]

FactoryExpresso == [classe |-> "FactoryExpresso"]

criar_transportadora(self) ==
    CASE self.classe = "FactoryEconomica" -> TransportadoraEconomica
      [] self.classe = "FactoryPadrao" -> TransportadoraPadrao
      [] self.classe = "FactoryExpresso" -> TransportadoraExpresso

\* faulty variant: the carrier's multiplier is not applied
processar_entrega_SemMultiplicador(self, p, base) ==
    LET transportadora == criar_transportadora(self)
    IN  <<get_nome(transportadora), base, get_prazo_dias(transportadora)>>

processar_entrega(self, p, base) ==
    LET transportadora == criar_transportadora(self)
        valor_final    == FMul(base, get_multiplicador_preco(transportadora))
        prazo          == get_prazo_dias(transportadora)
    IN  <<get_nome(transportadora), valor_final, prazo>>

---------------------------------------------------------------------------
(* SINGLETON PATTERN: LogSistema                                           *)

\* datetime.now().strftime("%Y-%m-%d %H:%M:%S") when the clock shows second t
Timestamp(t) == "0001-01-01 00:00:" \o (IF t < 10 THEN "0" ELSE "") \o ToString(t)

\* the list LogSistema.registrar leaves in self.logs
registrar(entradas_log, t, mensagem) ==
    Append(entradas_log, "[" \o Timestamp(t) \o "] " \o mensagem)

RECURSIVE registrar_todas(_, _, _)
registrar_todas(entradas_log, t, mensagens) ==
    IF mensagens = <<>> THEN entradas_log
    ELSE registrar_todas(registrar(entradas_log, t, mensagens[1]), t,
                         SubSeq(mensagens, 2, Len(mensagens)))

\* The memory the singleton lives in: instancia and inicializado are the
\* class attributes _instancia and _inicializado, logs[o] is the attribute
\* logs of the LogSistema object of identity o (None while it is not set,
\* else a list object), listas[l] the contents of the list object of identity l.
\* An object reference is an Objeto.
MemoriaInicial ==
    [instancia |-> None, inicializado |-> FALSE, logs |-> <<>>, listas |-> <<>>]

\* faulty variant: every construction allocates an object
LogSistema__new__Sempre(m) ==
    [m EXCEPT !.logs = Append(@, None),
              !.instancia = Objeto("LogSistema", Len(m.logs) + 1)]

\* cls._instancia after __new__, which returns it
LogSistema__new__(m) ==
    IF m.instancia = None
    THEN [m EXCEPT !.logs = Append(@, None),
                   !.instancia = Objeto("LogSistema", Len(m.logs) + 1)]
    ELSE m

\* faulty variant: every construction starts the list anew
LogSistema__init__Sempre(self, m) ==
    [m EXCEPT !.listas = Append(@, <<>>),
              !.logs[self.id] = Objeto("list", Len(m.listas) + 1),
              !.inicializado = TRUE]

LogSistema__init__(self, m) ==
    IF ~m.inicializado
    THEN [m EXCEPT !.listas = Append(@, <<>>),
                   !.logs[self.id] = Objeto("list", Len(m.listas) + 1),
                   !.inicializado = TRUE]
    ELSE m

\* LogSistema(): the object returned and the memory left
LogSistema(m) ==
    Seja(LogSistema__new__(m), LAMBDA m1 :
         [retorno |-> m1.instancia, memoria |-> LogSistema__init__(m1.instancia, m1)])

\* self.registrar(mensagem) for each of mensagens, at second t
LogSistema_registrar(self, m, t, mensagens) ==
    [m EXCEPT !.listas[m.logs[self.id].id] = registrar_todas(@, t, mensagens)]

\* faulty variant: the list itself is returned
get_logs_SemCopia(self, m) == [retorno |-> m.logs[self.id], memoria |-> m]

\* self.get_logs(): the list returned and the memory left
get_logs(self, m) ==
    [retorno |-> Objeto("list", Len(m.listas) + 1),
     memoria |-> [m EXCEPT !.listas = Append(@, m.listas[m.logs[self.id].id])]]

---------------------------------------------------------------------------
(* APP: ServicoFrete                                                       *)

Entrega(p, valor_frete, prazo_dias, transportadora, detalhes) ==
    [pacote |-> p, valor_frete |-> valor_frete, prazo_dias |-> prazo_dias,
     transportadora |-> transportadora, detalhes |-> detalhes]

ServicoFrete ==
    [classe |-> "ServicoFrete",
     estrategias |-> ("1" :> FretePorZona) @@ ("2" :> FretePorPeso)
                     @@ ("3" :> FretePorVolume) @@ ("4" :> FreteJanelaExpresso),
     factories |-> ("1" :> FactoryEconomica) @@ ("2" :> FactoryPadrao)
                   @@ ("3" :> FactoryExpresso)]

\* ServicoFrete(): the instance returned, whose log is LogSistema(), and the
\* memory left
ServicoFrete__init__(m) ==
    Seja(LogSistema(m), LAMBDA r :
         [retorno |-> [log |-> r.retorno] @@ ServicoFrete, memoria |-> r.memoria])

\* x in lista
Contem(lista, x) == \E i \in 1..Len(lista) : lista[i] = x

\* faulty variant: the strategy is looked up with estrategias[opcao], which raises
estrategias_get_Indexada(self, opcao) ==
    IF opcao \in DOMAIN self.estrategias THEN self.estrategias[opcao] ELSE KeyError

estrategias_get(self, opcao) == DictGet(self.estrategias, opcao, FretePorZona)

factories_get(self, opcao) == DictGet(self.factories, opcao, FactoryPadrao)

ValorDeclaradoCotacao == Lit(150000, 100)

\* faulty variant: the insurance is added with the decorator's default declared value
aplicar_servicos_SeguroDefault(frete_component, servicos) ==
    Seja(IF Contem(servicos, "pedagio")
         THEN PedagioDecorator(frete_component, PedagiosDefault)
         ELSE frete_component, LAMBDA c1 :
    Seja(IF Contem(servicos, "seguro")
         THEN SeguroDecorator(c1, ValorDeclaradoDefault)
         ELSE c1, LAMBDA c2 :
         IF Contem(servicos, "embalagem")
         THEN EmbalagemEspecialDecorator(c2, "reforçada")
         ELSE c2))

\* faulty variant: one decorator per tag of the list, in the order of the list
RECURSIVE aplicar_servicos_NaOrdemDada(_, _)
aplicar_servicos_NaOrdemDada(frete_component, servicos) ==
    IF servicos = <<>> THEN frete_component
    ELSE aplicar_servicos_NaOrdemDada(
             CASE servicos[1] = "pedagio" ->
                      PedagioDecorator(frete_component, PedagiosDefault)
               [] servicos[1] = "seguro" ->
                      SeguroDecorator(frete_component, ValorDeclaradoCotacao)
               [] servicos[1] = "embalagem" ->
                      EmbalagemEspecialDecorator(frete_component, "reforçada")
               [] OTHER -> frete_component,
             SubSeq(servicos, 2, Len(servicos)))

\* the component cotar_entrega builds around frete_component
aplicar_servicos(frete_component, servicos) ==
    Seja(IF Contem(servicos, "pedagio")
         THEN PedagioDecorator(frete_component, PedagiosDefault)
         ELSE frete_component, LAMBDA c1 :
    Seja(IF Contem(servicos, "seguro")
         THEN SeguroDecorator(c1, ValorDeclaradoCotacao)
         ELSE c1, LAMBDA c2 :
         IF Contem(servicos, "embalagem")
         THEN EmbalagemEspecialDecorator(c2, "reforçada")
         ELSE c2))

\* faulty variant: one message per tag of the list, in the order of the list
RECURSIVE mensagens_servicos_NaOrdemDada(_)
mensagens_servicos_NaOrdemDada(servicos) ==
    IF servicos = <<>> THEN <<>>
    ELSE (CASE servicos[1] = "pedagio" -> <<"Adicionado: Pedágios">>
            [] servicos[1] = "seguro" -> <<"Adicionado: Seguro">>
            [] servicos[1] = "embalagem" -> <<"Adicionado: Embalagem especial">>
            [] OTHER -> <<>>)
         \o mensagens_servicos_NaOrdemDada(SubSeq(servicos, 2, Len(servicos)))

\* the messages cotar_entrega registers while it builds the component
mensagens_servicos(servicos) ==
    (IF Contem(servicos, "pedagio") THEN <<"Adicionado: Pedágios">> ELSE <<>>)
    \o (IF Contem(servicos, "seguro") THEN <<"Adicionado: Seguro">> ELSE <<>>)
    \o (IF Contem(servicos, "embalagem") THEN <<"Adicionado: Embalagem especial">>
        ELSE <<>>)

\* cotar_entrega from the carrier on: ms are the messages registered so far
cotar_entrega_sla(p, factory, frete_component, ms) ==
    Seja(processar_entrega(factory, p, calcular_custo(frete_component)), LAMBDA r :
         [mensagens |->
              ms \o <<"Transportadora: " \o r[1] \o " - Prazo: " \o ToString(r[3])
                      \o " dias",
                      "Cotação finalizada: R$ " \o Fmt2(r[2])>>,
          retorno |-> Entrega(p, r[2], r[3], r[1], get_descricao(frete_component))])

\* cotar_entrega from the strategy's value on: m1 is the first message
cotar_entrega_servicos(self, p, estrategia, opcao_s, servicos, m1) ==
    Seja(calcular(estrategia, p), LAMBDA valor_base :
    Seja(<<m1, "Estratégia '" \o get_nome(estrategia) \o "': R$ " \o Fmt2(valor_base)>>
         \o mensagens_servicos(servicos), LAMBDA ms :
    Seja(factories_get(self, opcao_s), LAMBDA factory :
         IF factory = KeyError THEN [mensagens |-> ms, retorno |-> KeyError]
         ELSE cotar_entrega_sla(
                  p, factory,
                  aplicar_servicos(FreteBasico(valor_base, get_nome(estrategia)),
                                   servicos),
                  ms))))

\* cotar_entrega: the messages it registers, in order, and what it returns (an
\* Entrega, or the exception that ended it)
cotar_entrega(self, p, opcao_e, opcao_s, servicos) ==
    Seja("Iniciando cotação: " \o p.origem \o " → " \o p.destino, LAMBDA m1 :
    Seja(estrategias_get(self, opcao_e), LAMBDA estrategia :
         IF estrategia = KeyError THEN [mensagens |-> <<m1>>, retorno |-> KeyError]
         ELSE cotar_entrega_servicos(self, p, estrategia, opcao_s, servicos, m1)))

---------------------------------------------------------------------------
(* State.  The caller's arguments: pacote, frete_base (the base value      *)
(* handed to processar_entrega), opcao_estrategia, opcao_sla and           *)
(* servicos_adicionais.  frete is the caller's freight component (a        *)
(* FreteBasico or the outermost decorator wrapped around one), ret the     *)
(* value the last call returned.  log_instancia and log_inicializado are   *)
(* LogSistema's class attributes, logs the instance's list, relogio the    *)
(* wall clock in seconds.                                                   *)

VARIABLES pacote, frete_base, opcao_estrategia, opcao_sla, servicos_adicionais,
          frete, ret, log_instancia, log_inicializado, logs, listas, relogio,
          guardados

entradas == <<pacote, frete_base, opcao_estrategia, opcao_sla, servicos_adicionais>>

log == <<log_instancia, log_inicializado, logs, listas, relogio>>

vars == <<entradas, frete, ret, log, guardados>>

\* the memory of the state
Memoria ==
    [instancia |-> log_instancia, inicializado |-> log_inicializado,
     logs |-> logs, listas |-> listas]

\* the memory of the state is m
MemoriaE(m) ==
    /\ log_instancia = m.instancia
    /\ log_inicializado = m.inicializado
    /\ logs = m.logs
    /\ listas = m.listas

\* the memory of the next state is m
MemoriaFica(m) ==
    /\ log_instancia' = m.instancia
    /\ log_inicializado' = m.inicializado
    /\ logs' = m.logs
    /\ listas' = m.listas

\* the class attributes of LogSistema when the module is loaded, no object
\* and no list existing yet
LogNaoCriado ==
    /\ MemoriaE(MemoriaInicial)
    /\ relogio = 0

Chamada(metodo, valor) == [metodo |-> metodo, valor |-> valor]

\* what the caller keeps of a call: the arguments given and the value returned
Guardado(metodo, args, valor) == [metodo |-> metodo, args |-> args, valor |-> valor]

\* the values the caller keeps that metodo returned
Guardados(metodo) == {g.valor : g \in {h \in guardados : h.metodo = metodo}}

\* the entries seen through the LogSistema reference o
Entradas(o) == listas[logs[o.id].id]

---------------------------------------------------------------------------
(* The four strategies applied to a package (TestStrategyPattern).        *)

InitStrategy ==
    /\ pacote \in Pacotes
    /\ frete_base = None
    /\ opcao_estrategia = None
    /\ opcao_sla = None
    /\ servicos_adicionais = None
    /\ frete = None
    /\ ret = None
    /\ LogNaoCriado
    /\ guardados = {}

CalcularPorZona ==
    /\ ret' = Chamada("FretePorZona.calcular", calcular(FretePorZona, pacote))
    /\ UNCHANGED <<entradas, frete, log, guardados>>

CalcularPorPeso ==
    /\ ret' = Chamada("FretePorPeso.calcular", calcular(FretePorPeso, pacote))
    /\ UNCHANGED <<entradas, frete, log, guardados>>

CalcularPorVolume ==
    /\ ret' = Chamada("FretePorVolume.calcular", calcular(FretePorVolume, pacote))
    /\ UNCHANGED <<entradas, frete, log, guardados>>

CalcularExpresso ==
    /\ ret' = Chamada("FreteJanelaExpresso.calcular", calcular(FreteJanelaExpresso, pacote))
    /\ UNCHANGED <<entradas, frete, log, guardados>>

NextStrategy ==
    \/ CalcularPorZona
    \/ CalcularPorPeso
    \/ CalcularPorVolume
    \/ CalcularExpresso

SpecStrategy == InitStrategy /\ [][NextStrategy]_vars

---------------------------------------------------------------------------
(* Claims on the strategies (SpecStrategy)                                 *)

Retornou(metodo) == ret # None /\ ret.metodo = metodo

\* C3: FretePorZona.calcular returns exactly 15.00 for "local", 35.00 for
\* "regional", 80.00 for "nacional" and 50.00 for every other zone string,
\* whatever the weight, volume, origin and destination, and raises nothing.
C3_PorZona ==
    Retornou("FretePorZona.calcular") =>
        /\ ret.valor # KeyError
        /\ ret.valor = (CASE pacote.zona = "local" -> Lit(15, 1)
                          [] pacote.zona = "regional" -> Lit(35, 1)
                          [] pacote.zona = "nacional" -> Lit(80, 1)
                          [] OTHER -> Lit(50, 1))
        /\ \A q \in Pacotes :
              q.zona = pacote.zona => FretePorZona_calcular(FretePorZona, q) = ret.valor

\* an unknown zone (here one that differs from a known zone only in case) was priced
C3_Witness ==
    /\ Retornou("FretePorZona.calcular")
    /\ pacote.zona = "Local"
    /\ ret.valor = Lit(50, 1)

\* C4: FretePorPeso.calcular returns 10.00 + peso_kg * 8.50 and
\* FretePorVolume.calcular returns 12.00 + volume_m3 * 120.00 (95.00 for 10 kg,
\* 72.00 for 0.5 m3), and neither depends on any other field of the package.
C4_PorPesoPorVolume ==
    /\ Retornou("FretePorPeso.calcular") =>
          /\ ret.valor = FAdd(Lit(10, 1), FMul(pacote.peso_kg, Lit(85, 10)))
          /\ pacote.peso_kg = Lit(10, 1) => ret.valor = Lit(95, 1)
          /\ \A q \in Pacotes :
                q.peso_kg = pacote.peso_kg
                    => FretePorPeso_calcular(FretePorPeso, q) = ret.valor
    /\ Retornou("FretePorVolume.calcular") =>
          /\ ret.valor = FAdd(Lit(12, 1), FMul(pacote.volume_m3, Lit(120, 1)))
          /\ pacote.volume_m3 = Lit(5, 10) => ret.valor = Lit(72, 1)
          /\ \A q \in Pacotes :
                q.volume_m3 = pacote.volume_m3
                    => FretePorVolume_calcular(FretePorVolume, q) = ret.valor

\* the test's package (10 kg) was priced by weight at 95.00
C4_Witness ==
    /\ Retornou("FretePorPeso.calcular")
    /\ pacote.peso_kg = Lit(10, 1)
    /\ pacote.volume_m3 = Lit(5, 10)
    /\ ret.valor = Lit(95, 1)

\* C5: FreteJanelaExpresso.calcular returns exactly 2.5 times what
\* FretePorZona.calcular returns for the same package, an unrecognized zone
\* included (87.50 for "regional", 125.00 for an unknown zone).
C5_Expresso ==
    Retornou("FreteJanelaExpresso.calcular") =>
        /\ ret.valor = FMul(FretePorZona_calcular(FretePorZona, pacote), Lit(25, 10))
        /\ pacote.zona = "regional" => ret.valor = Lit(8750, 100)
        /\ pacote.zona \notin {"local", "regional", "nacional"} => ret.valor = Lit(125, 1)

\* the express strategy priced a package of an unknown zone at 125.00
C5_Witness ==
    /\ Retornou("FreteJanelaExpresso.calcular")
    /\ pacote.zona = "zona_inexistente"
    /\ ret.valor = Lit(125, 1)

\* C6: each of the four pricing strategies returns a value strictly greater
\* than 0 for every package.
C6_Positivo ==
    ret # None => FGt(ret.valor, FZero(0))

---------------------------------------------------------------------------
(* Decorators stacked on a FreteBasico and read (TestDecoratorPattern).   *)

MaxDecoradores == 3

\* 50.00 is the tests' base value, the other the price by weight of 0.1 kg
ValoresBase ==
    {Lit(50, 1), FretePorPeso_calcular(FretePorPeso, Pacote(Lit(1, 10), Lit(0, 1), "SP", "RJ", "local"))}

NumerosPedagios == {1, PedagiosDefault}

ValoresDeclarados == {ValorDeclaradoDefault, Lit(12345, 100)}

Tipos == {"térmica", "plástico-bolha"}

RECURSIVE Profundidade(_)
Profundidade(f) == IF f.classe = "FreteBasico" THEN 0 ELSE 1 + Profundidade(f._frete)

InitDecorator ==
    /\ pacote = Pacote(Lit(10, 1), Lit(5, 10), "São Paulo", "Curitiba", "regional")
    /\ frete_base = None
    /\ opcao_estrategia = None
    /\ opcao_sla = None
    /\ servicos_adicionais = None
    /\ frete \in {FreteBasico(v, "Teste") : v \in ValoresBase}
    /\ ret = None
    /\ LogNaoCriado
    /\ guardados = {}

ComPedagio ==
    /\ Profundidade(frete) < MaxDecoradores
    /\ \E n \in NumerosPedagios : frete' = PedagioDecorator(frete, n)
    /\ ret' = None
    /\ UNCHANGED <<entradas, log, guardados>>

ComSeguro ==
    /\ Profundidade(frete) < MaxDecoradores
    /\ \E v \in ValoresDeclarados : frete' = SeguroDecorator(frete, v)
    /\ ret' = None
    /\ UNCHANGED <<entradas, log, guardados>>

ComEmbalagem ==
    /\ Profundidade(frete) < MaxDecoradores
    /\ \E t \in Tipos : frete' = EmbalagemEspecialDecorator(frete, t)
    /\ ret' = None
    /\ UNCHANGED <<entradas, log, guardados>>

CalcularCusto ==
    /\ ret' = Chamada("calcular_custo", calcular_custo(frete))
    /\ UNCHANGED <<entradas, frete, log, guardados>>

GetDescricao ==
    /\ ret' = Chamada("get_descricao", get_descricao(frete))
    /\ UNCHANGED <<entradas, frete, log, guardados>>

NextDecorator ==
    \/ ComPedagio
    \/ ComSeguro
    \/ ComEmbalagem
    \/ CalcularCusto
    \/ GetDescricao

SpecDecorator == InitDecorator /\ [][NextDecorator]_vars

---------------------------------------------------------------------------
(* Claims on the decorators (SpecDecorator)                                *)

RECURSIVE Basico(_)
Basico(f) == IF f.classe = "FreteBasico" THEN f ELSE Basico(f._frete)

\* the decorators of a chain, the first applied (innermost) first
RECURSIVE Decoracoes(_)
Decoracoes(f) ==
    IF f.classe = "FreteBasico" THEN <<>> ELSE Append(Decoracoes(f._frete), f)

\* the decorators ds applied anew, in the order of ds, to component f
RECURSIVE Redecorar(_, _)
Redecorar(f, ds) ==
    IF ds = <<>> THEN f
    ELSE Redecorar([ds[1] EXCEPT !._frete = f], SubSeq(ds, 2, Len(ds)))

Reordenar(ds, perm) == [i \in 1..Len(ds) |-> ds[perm[i]]]

\* C7: decorator stacking is commutative in cost: every order of applying the
\* same decorations to the same FreteBasico yields the same calcular_custo().
C7_Comutativo ==
    Retornou("calcular_custo") =>
        \A perm \in Permutations(1..Profundidade(frete)) :
            FEq(calcular_custo(Redecorar(Basico(frete), Reordenar(Decoracoes(frete), perm))),
                ret.valor)

\* what the claim says each decoration adds
Sobretaxa(d) ==
    CASE d.classe = "PedagioDecorator" -> FMul(FromInt(d.numero_pedagios), Lit(850, 100))
      [] d.classe = "SeguroDecorator" -> FMul(d.valor_declarado, Lit(2, 100))
      [] d.classe = "EmbalagemEspecialDecorator" ->
            (CASE d.tipo = "reforçada" -> Lit(25, 1)
               [] d.tipo = "térmica" -> Lit(45, 1)
               [] d.tipo = "antiestática" -> Lit(55, 1)
               [] OTHER -> Lit(25, 1))

TodosTipos == {"reforçada", "térmica", "antiestática", "plástico-bolha", ""}

\* C8: a decorator's calcular_custo() is the wrapped component's
\* calcular_custo() plus its own surcharge: count * 8.50 for the toll,
\* declared value * 0.02 for the insurance, 25.00/45.00/55.00 for reinforced/
\* thermal/antistatic packaging and 25.00 for any other kind; the same
\* decoration applied twice adds its surcharge twice.
C8_Sobretaxa ==
    /\ Retornou("calcular_custo") /\ frete.classe # "FreteBasico" =>
          /\ ret.valor = FAdd(calcular_custo(frete._frete), Sobretaxa(frete))
          /\ \A t \in TodosTipos :
                calcular_custo(EmbalagemEspecialDecorator(frete, t))
                    = FAdd(ret.valor, Sobretaxa(EmbalagemEspecialDecorator(frete, t)))
          /\ calcular_custo(Redecorar(frete, <<frete>>))
                = FAdd(FAdd(calcular_custo(frete._frete), Sobretaxa(frete)), Sobretaxa(frete))
    /\ Retornou("calcular_custo") /\ Profundidade(frete) = 1
          /\ frete._frete.valor_base = Lit(50, 1) =>
          /\ frete = PedagioDecorator(frete._frete, 3) => ret.valor = Lit(7550, 100)
          /\ frete = SeguroDecorator(frete._frete, Lit(1000, 1)) => ret.valor = Lit(70, 1)

\* the cost of a chain that holds the same decoration twice was read
C8_Witness ==
    /\ Retornou("calcular_custo")
    /\ Profundidade(frete) >= 2
    /\ frete = Redecorar(frete._frete._frete, <<frete, frete>>)
    /\ frete.classe = "EmbalagemEspecialDecorator"
    /\ frete.tipo = "plástico-bolha"

\* C9: get_descricao() returns 1 + (number of decorations applied) lines: the
\* FreteBasico's 'calculated by' line first, then the decorations' lines in the
\* order in which the decorations were applied, innermost first.
C9_Descricao ==
    Retornou("get_descricao") =>
        /\ Len(ret.valor) = 1 + Profundidade(frete)
        /\ ret.valor[1] = "Frete calculado por: " \o Basico(frete).estrategia_nome
        /\ \A i \in 1..Profundidade(frete) :
              ret.valor[i + 1] = descricao_propria(Decoracoes(frete)[i])

\* three different decorations were described, toll first, packaging last
C9_Witness ==
    /\ Retornou("get_descricao")
    /\ Profundidade(frete) = 3
    /\ frete.classe = "EmbalagemEspecialDecorator"
    /\ frete._frete.classe = "SeguroDecorator"
    /\ frete._frete._frete.classe = "PedagioDecorator"
    /\ ret.valor = <<"Frete calculado por: Teste", "+ Pedágios (3x): R$ 25.50",
                     "+ Seguro (R$ 1000.00): R$ 20.00", "+ Embalagem térmica: R$ 45.00">>

---------------------------------------------------------------------------
(* The three factories processing a delivery (TestFactoryMethodPattern).  *)

\* the packages of the tests
PacotesTeste ==
    {Pacote(Lit(10, 1), Lit(5, 10), "São Paulo", "Curitiba", "regional"),
     Pacote(Lit(15, 1), Lit(8, 10), "São Paulo", "Rio de Janeiro", "regional"),
     Pacote(Lit(8, 1), Lit(3, 10), "Curitiba", "Florianópolis", "local"),
     Pacote(Lit(5, 1), Lit(2, 10), "SP", "Manaus", "nacional"),
     Pacote(Lit(0, 1), Lit(1, 10), "SP", "RJ", "local"),
     Pacote(Lit(5, 1), Lit(2, 10), "SP", "RJ", "zona_inexistente")}

FretesBase == Decimos(-1, MaxDecimos) \cup {Lit(100, 1), Lit(7550, 100)}

InitFactory ==
    /\ pacote \in PacotesTeste
    /\ frete_base \in FretesBase
    /\ opcao_estrategia = None
    /\ opcao_sla = None
    /\ servicos_adicionais = None
    /\ frete = None
    /\ ret = None
    /\ LogNaoCriado
    /\ guardados = {}

ProcessarEconomica ==
    /\ ret' = Chamada("FactoryEconomica.processar_entrega",
                      processar_entrega(FactoryEconomica, pacote, frete_base))
    /\ UNCHANGED <<entradas, frete, log, guardados>>

ProcessarPadrao ==
    /\ ret' = Chamada("FactoryPadrao.processar_entrega",
                      processar_entrega(FactoryPadrao, pacote, frete_base))
    /\ UNCHANGED <<entradas, frete, log, guardados>>

ProcessarExpresso ==
    /\ ret' = Chamada("FactoryExpresso.processar_entrega",
                      processar_entrega(FactoryExpresso, pacote, frete_base))
    /\ UNCHANGED <<entradas, frete, log, guardados>>

NextFactory ==
    \/ ProcessarEconomica
    \/ ProcessarPadrao
    \/ ProcessarExpresso

SpecFactory == InitFactory /\ [][NextFactory]_vars

\* C10: processar_entrega returns (name, base * multiplier, lead time) of the
\* factory's carrier: ("TransLog Econômica", base * 1.0, 10) for Economy,
\* ("ExpressLog Padrão", base * 1.3, 5) for Standard, ("RapidLog Express",
\* base * 1.8, 2) for Express (100.0, 130.0 and 180.0 for a base of 100); the
\* lead times strictly decrease Economy > Standard > Express, and the result
\* does not depend on the package.
C10_Processar ==
    /\ Retornou("FactoryEconomica.processar_entrega") =>
          /\ ret.valor = <<"TransLog Econômica", FMul(frete_base, Lit(10, 10)), 10>>
          /\ ret.valor[2] = frete_base
          /\ ret.valor[3] > processar_entrega(FactoryPadrao, pacote, frete_base)[3]
    /\ Retornou("FactoryPadrao.processar_entrega") =>
          /\ ret.valor = <<"ExpressLog Padrão", FMul(frete_base, Lit(13, 10)), 5>>
          /\ frete_base = Lit(100, 1) => ret.valor[2] = Lit(130, 1)
          /\ ret.valor[3] > processar_entrega(FactoryExpresso, pacote, frete_base)[3]
    /\ Retornou("FactoryExpresso.processar_entrega") =>
          /\ ret.valor = <<"RapidLog Express", FMul(frete_base, Lit(18, 10)), 2>>
          /\ frete_base = Lit(100, 1) => ret.valor[2] = Lit(180, 1)
    /\ ret # None =>
          \A f \in {FactoryEconomica, FactoryPadrao, FactoryExpresso} :
              ret.metodo = f.classe \o ".processar_entrega" =>
                  \A q \in PacotesTeste : processar_entrega(f, q, frete_base) = ret.valor

\* the Standard factory processed the tests' base value of 100.00 into 130.00
C10_Witness ==
    /\ Retornou("FactoryPadrao.processar_entrega")
    /\ frete_base = Lit(100, 1)
    /\ ret.valor = <<"ExpressLog Padrão", Lit(130, 1), 5>>

---------------------------------------------------------------------------
(* A ServicoFrete quoting the caller's delivery (TestIntegracaoCompleta,  *)
(* cotar_entrega_interativa).                                              *)

MaxLogs == 14

MaxRelogio == 1

OpcoesEstrategia == {"1", "2", "3", "4", "5"}

OpcoesSla == {"1", "2", "3", "4"}

\* the packages of TestIntegracaoCompleta, a national one and one of unknown zone
PacotesCotacao ==
    {Pacote(Lit(15, 1), Lit(8, 10), "São Paulo", "Rio de Janeiro", "regional"),
     Pacote(Lit(8, 1), Lit(3, 10), "Curitiba", "Florianópolis", "local"),
     Pacote(Lit(5, 1), Lit(2, 10), "SP", "Manaus", "nacional"),
     Pacote(Lit(5, 1), Lit(2, 10), "SP", "RJ", "zona_inexistente")}

ListasServicos ==
    {<<>>, <<"pedagio">>, <<"seguro">>, <<"embalagem">>, <<"pedagio", "seguro">>,
     <<"seguro", "embalagem">>, <<"pedagio", "seguro", "embalagem">>,
     <<"embalagem", "pedagio", "pedagio">>, <<"seguro", "frete_gratis", "pedagio">>}

\* the state once the first ServicoFrete() of the process has been constructed
Init ==
    /\ pacote \in PacotesCotacao
    /\ frete_base = None
    /\ opcao_estrategia \in OpcoesEstrategia
    /\ opcao_sla \in OpcoesSla
    /\ servicos_adicionais \in ListasServicos
    /\ frete = None
    /\ ret = None
    /\ \E r \in {ServicoFrete__init__(MemoriaInicial)} :
           /\ MemoriaE(r.memoria)
           /\ guardados = {Guardado("ServicoFrete", <<>>, r.retorno)}
    /\ relogio = 0

Tick ==
    /\ relogio < MaxRelogio
    /\ relogio' = relogio + 1
    /\ UNCHANGED <<entradas, frete, ret, log_instancia, log_inicializado, logs,
                   listas, guardados>>

\* servico.cotar_entrega(entrega, ...) on the ServicoFrete the caller holds
CotarEntrega ==
    \E self \in Guardados("ServicoFrete") :
    \E r \in {cotar_entrega(self, pacote, opcao_estrategia, opcao_sla,
                            servicos_adicionais)} :
        /\ Len(Entradas(self.log)) + Len(r.mensagens) <= MaxLogs
        /\ MemoriaFica(LogSistema_registrar(self.log, Memoria, relogio, r.mensagens))
        /\ ret' = Chamada("ServicoFrete.cotar_entrega", r.retorno)
        /\ UNCHANGED <<entradas, frete, relogio, guardados>>

Next ==
    \/ Tick
    \/ CotarEntrega

Spec == Init /\ [][Next]_vars

---------------------------------------------------------------------------
(* Claims on cotar_entrega (Spec)                                          *)

\* what the claims say the keys resolve to
EstrategiaDaOpcao(opcao) ==
    CASE opcao = "1" -> FretePorZona
      [] opcao = "2" -> FretePorPeso
      [] opcao = "3" -> FretePorVolume
      [] opcao = "4" -> FreteJanelaExpresso
      [] OTHER -> FretePorZona

TierDaOpcao(opcao) ==
    CASE opcao = "1" -> [nome |-> "TransLog Econômica", mult |-> Lit(10, 10), prazo |-> 10]
      [] opcao = "3" -> [nome |-> "RapidLog Express", mult |-> Lit(18, 10), prazo |-> 2]
      [] OTHER -> [nome |-> "ExpressLog Padrão", mult |-> Lit(13, 10), prazo |-> 5]

SomaComServicos(base, servicos) ==
    LET s1 == IF Contem(servicos, "pedagio") THEN FAdd(base, Lit(2550, 100)) ELSE base
        s2 == IF Contem(servicos, "seguro") THEN FAdd(s1, Lit(3000, 100)) ELSE s1
    IN  IF Contem(servicos, "embalagem") THEN FAdd(s2, Lit(2500, 100)) ELSE s2

\* C1: cotar_entrega returns an Entrega whose valor_frete is (base price of
\* the resolved strategy + 25.50 if "pedagio" is present + 30.00 if "seguro" is
\* present + 25.00 if "embalagem" is present) times the resolved tier's
\* multiplier, and whose prazo_dias and transportadora are the resolved tier's.
C1_ValorFrete ==
    Retornou("ServicoFrete.cotar_entrega") =>
        LET base == calcular(EstrategiaDaOpcao(opcao_estrategia), pacote)
            tier == TierDaOpcao(opcao_sla)
        IN  /\ ret.valor # KeyError
            /\ ret.valor.pacote = pacote
            /\ ret.valor.valor_frete
                  = FMul(SomaComServicos(base, servicos_adicionais), tier.mult)
            /\ ret.valor.prazo_dias = tier.prazo
            /\ ret.valor.transportadora = tier.nome

\* the tests' quote by volume, Economy tier, all three add-ons: (48 + 80.50) * 1.0
C1_Witness ==
    /\ Retornou("ServicoFrete.cotar_entrega")
    /\ pacote = Pacote(Lit(8, 1), Lit(3, 10), "Curitiba", "Florianópolis", "local")
    /\ opcao_estrategia = "3"
    /\ opcao_sla = "1"
    /\ servicos_adicionais = <<"pedagio", "seguro", "embalagem">>
    /\ ret.valor.valor_frete = Lit(12850, 100)
    /\ ret.valor.prazo_dias = 10

\* C2: cotar_entrega raises for no strategy key and no tier key: a strategy
\* key outside "1".."4" yields exactly the Entrega that key "1" yields, and a
\* tier key outside "1".."3" exactly the Entrega that key "2" yields, all other
\* arguments being equal.
C2_ChaveDesconhecida ==
    Retornou("ServicoFrete.cotar_entrega") =>
        /\ ret.valor # KeyError
        /\ opcao_estrategia \notin {"1", "2", "3", "4"} =>
              ret.valor = cotar_entrega(ServicoFrete, pacote, "1", opcao_sla,
                                        servicos_adicionais).retorno
        /\ opcao_sla \notin {"1", "2", "3"} =>
              ret.valor = cotar_entrega(ServicoFrete, pacote, opcao_estrategia, "2",
                                        servicos_adicionais).retorno

\* a quote was returned for an unknown strategy key and an unknown tier key
C2_Witness ==
    /\ Retornou("ServicoFrete.cotar_entrega")
    /\ opcao_estrategia = "5"
    /\ opcao_sla = "4"
    /\ pacote.zona = "nacional"
    /\ ret.valor # KeyError
    /\ ret.valor.transportadora = "ExpressLog Padrão"
    /\ ret.valor.detalhes[1] = "Frete calculado por: Frete por Zona"

\* the add-on tags cotar_entrega recognizes
TagsReconhecidas == {"pedagio", "seguro", "embalagem"}

\* the recognized tags that occur in servicos
TagsPresentes(servicos) == {t \in TagsReconhecidas : Contem(servicos, t)}

\* x if tag occurs in servicos
SePresente(servicos, tag, x) == IF Contem(servicos, tag) THEN <<x>> ELSE <<>>

\* C14: each cotar_entrega appends exactly 4 + k entries to the log, k the
\* number of add-ons applied: the "starting quotation" entry, the strategy
\* and base value entry, one entry per add-on applied in the order toll,
\* insurance, packaging, the carrier and lead time entry, and last the
\* "quotation finished" entry; the entries of one quote are contiguous.
\* (Of the two steps of Spec, CotarEntrega is the one that leaves the clock.)
C14_EntradasDaCotacao ==
    [][relogio' = relogio =>
          \E self \in Guardados("ServicoFrete") :
              LET estrategia == EstrategiaDaOpcao(opcao_estrategia)
                  tier == TierDaOpcao(opcao_sla)
                  antes == listas[logs[self.log.id].id]
                  depois == listas'[logs'[self.log.id].id]
                  carimbo == "[" \o Timestamp(relogio) \o "] "
                  k == Cardinality(TagsPresentes(servicos_adicionais))
              IN  /\ Len(depois) = Len(antes) + 4 + k
                  /\ depois = antes \o
                        [i \in 1..(4 + k) |-> carimbo \o
                           (<<"Iniciando cotação: " \o pacote.origem \o " → "
                                \o pacote.destino,
                              "Estratégia '" \o get_nome(estrategia) \o "': R$ "
                                \o Fmt2(calcular(estrategia, pacote))>>
                            \o SePresente(servicos_adicionais, "pedagio",
                                          "Adicionado: Pedágios")
                            \o SePresente(servicos_adicionais, "seguro",
                                          "Adicionado: Seguro")
                            \o SePresente(servicos_adicionais, "embalagem",
                                          "Adicionado: Embalagem especial")
                            \o <<"Transportadora: " \o tier.nome \o " - Prazo: "
                                   \o ToString(tier.prazo) \o " dias",
                                 "Cotação finalizada: R$ "
                                   \o Fmt2(ret'.valor.valor_frete)>>)[i]]]_vars

\* two quotes with a repeated tag given out of order left 6 + 6 entries, the
\* second quote's entries after the first's
C14_Witness ==
    /\ Retornou("ServicoFrete.cotar_entrega")
    /\ servicos_adicionais = <<"embalagem", "pedagio", "pedagio">>
    /\ pacote.origem = "Curitiba"
    /\ Len(listas[1]) = 12
    /\ listas[1][3] = "[0001-01-01 00:00:00] Adicionado: Pedágios"
    /\ listas[1][4] = "[0001-01-01 00:00:00] Adicionado: Embalagem especial"
    /\ listas[1][7] = "[0001-01-01 00:00:01] Iniciando cotação: Curitiba → Florianópolis"
    /\ listas[1][10] = "[0001-01-01 00:00:01] Adicionado: Embalagem especial"

\* C15: the details of a quote are the basic line followed by one line per
\* distinct recognized tag of the input, in the order toll, insurance,
\* packaging whatever the order of the input, 1 + (number of distinct
\* recognized tags) lines in all; a repeated tag counts once and an
\* unrecognized tag not at all (toll and insurance at tier "2": 3 lines, 5 days).
C15_Detalhes ==
    Retornou("ServicoFrete.cotar_entrega") =>
        /\ ret.valor # KeyError
        /\ Len(ret.valor.detalhes) = 1 + Cardinality(TagsPresentes(servicos_adicionais))
        /\ ret.valor.detalhes =
              <<"Frete calculado por: " \o get_nome(EstrategiaDaOpcao(opcao_estrategia))>>
              \o SePresente(servicos_adicionais, "pedagio", "+ Pedágios (3x): R$ 25.50")
              \o SePresente(servicos_adicionais, "seguro",
                            "+ Seguro (R$ 1500.00): R$ 30.00")
              \o SePresente(servicos_adicionais, "embalagem",
                            "+ Embalagem reforçada: R$ 25.00")
        /\ (TagsPresentes(servicos_adicionais) = {"pedagio", "seguro"}
              /\ opcao_sla = "2") =>
                 Len(ret.valor.detalhes) = 3 /\ ret.valor.prazo_dias = 5

\* insurance, an unknown tag and toll at tier "2": basic, toll, insurance; 5 days
C15_Witness ==
    /\ Retornou("ServicoFrete.cotar_entrega")
    /\ servicos_adicionais = <<"seguro", "frete_gratis", "pedagio">>
    /\ opcao_sla = "2"
    /\ opcao_estrategia = "2"
    /\ ret.valor.detalhes = <<"Frete calculado por: Frete por Peso",
                              "+ Pedágios (3x): R$ 25.50",
                              "+ Seguro (R$ 1500.00): R$ 30.00">>
    /\ ret.valor.prazo_dias = 5

---------------------------------------------------------------------------
(* A session: the caller constructs LogSistema and ServicoFrete objects,   *)
(* registers through any reference it holds, quotes, takes get_logs() and  *)
(* changes the lists get_logs returned (TestSingletonPattern, menu).       *)

MaxGuardados == 3

MaxEntradas == 2

Mensagens == {"Teste 1", "Teste 2"}

\* the LogSistema references the caller can reach
Referencias ==
    Guardados("LogSistema") \cup {self.log : self \in Guardados("ServicoFrete")}

\* a fresh process: nothing constructed yet
InitSessao ==
    /\ pacote = Pacote(Lit(15, 1), Lit(8, 10), "São Paulo", "Rio de Janeiro", "regional")
    /\ frete_base = None
    /\ opcao_estrategia = "1"
    /\ opcao_sla = "2"
    /\ servicos_adicionais \in {<<>>, <<"seguro", "pedagio">>}
    /\ frete = None
    /\ ret = None
    /\ LogNaoCriado
    /\ guardados = {}

\* log = LogSistema()
NovoLogSistema ==
    \E r \in {LogSistema(Memoria)} :
        /\ Cardinality(guardados) < MaxGuardados
        /\ MemoriaFica(r.memoria)
        /\ guardados' = guardados \cup {Guardado("LogSistema", <<>>, r.retorno)}
        /\ ret' = Chamada("LogSistema", r.retorno)
        /\ UNCHANGED <<entradas, frete, relogio>>

\* servico = ServicoFrete()
NovoServicoFrete ==
    \E r \in {ServicoFrete__init__(Memoria)} :
        /\ Cardinality(guardados) < MaxGuardados
        /\ MemoriaFica(r.memoria)
        /\ guardados' = guardados \cup {Guardado("ServicoFrete", <<>>, r.retorno)}
        /\ ret' = Chamada("ServicoFrete", r.retorno)
        /\ UNCHANGED <<entradas, frete, relogio>>

\* log.registrar(mensagem) through a reference the caller holds
Registrar ==
    \E self \in Referencias, mensagem \in Mensagens :
        /\ Len(Entradas(self)) < MaxEntradas
        /\ MemoriaFica(LogSistema_registrar(self, Memoria, relogio, <<mensagem>>))
        /\ ret' = Chamada("LogSistema.registrar", None)
        /\ UNCHANGED <<entradas, frete, relogio, guardados>>

\* logs = log.get_logs()
GetLogs ==
    \E self \in Referencias :
    \E r \in {get_logs(self, Memoria)} :
        /\ Cardinality(guardados) < MaxGuardados
        /\ MemoriaFica(r.memoria)
        /\ guardados' = guardados
                            \cup {Guardado("LogSistema.get_logs", <<self>>, r.retorno)}
        /\ ret' = Chamada("LogSistema.get_logs", r.retorno)
        /\ UNCHANGED <<entradas, frete, relogio>>

\* logs.clear() on a list get_logs returned
LimparCopia ==
    \E copia \in Guardados("LogSistema.get_logs") :
        /\ listas[copia.id] # <<>>
        /\ listas' = [listas EXCEPT ![copia.id] = <<>>]
        /\ ret' = Chamada("list.clear", None)
        /\ UNCHANGED <<entradas, frete, log_instancia, log_inicializado, logs,
                       relogio, guardados>>

NextSessao ==
    \/ NovoLogSistema
    \/ NovoServicoFrete
    \/ Registrar
    \/ CotarEntrega
    \/ GetLogs
    \/ LimparCopia

SpecSessao == InitSessao /\ [][NextSessao]_vars

\* a is a prefix of b
Prefixo(a, b) == Len(a) <= Len(b) /\ SubSeq(b, 1, Len(a)) = a

\* the entries seen through the reference o after the step
EntradasDepois(o) == listas'[logs'[o.id].id]

\* the step is a call of metodo
Passo(metodo) == ret'.metodo = metodo

\* C12: the log is append-only: over every step of a session (registrar,
\* cotar_entrega, get_logs, LogSistema() and ServicoFrete() constructions, a
\* caller changing a list get_logs returned) the entries of every LogSistema
\* object before the step are a prefix of its entries after the step.
C12_SoAcrescenta ==
    [][\A o \in 1..Len(logs) :
          logs[o] # None =>
             /\ o <= Len(logs')
             /\ logs'[o] # None
             /\ Prefixo(listas[logs[o].id], listas'[logs'[o].id])]_vars

\* an entry registered through a LogSistema() reference, then a quote's
\* entries, with a second construction and a get_logs in between
C12_Witness ==
    /\ Guardados("LogSistema") # {}
    /\ Guardados("ServicoFrete") # {}
    /\ Guardados("LogSistema.get_logs") # {}
    /\ Len(listas[1]) = 5
    /\ listas[1][1] = "[0001-01-01 00:00:00] Teste 1"
    /\ listas[1][5] = "[0001-01-01 00:00:00] Cotação finalizada: R$ 45.50"

\* the LogSistema a construction returned: the object, or the log of the service
LogDe(valor) == IF valor.classe = "ServicoFrete" THEN valor.log ELSE valor

\* C13: LogSistema is a singleton that keeps its state: after every step all
\* the references held (those LogSistema() returned and the log of every
\* ServicoFrete) are the one instance, which never changes once created; a
\* construction leaves the entries as they were; and all references show the
\* same entries.
C13_Singleton ==
    [][/\ \A o \in Referencias' : o = log_instancia'
       /\ log_instancia # None => log_instancia' = log_instancia
       /\ (Passo("LogSistema") \/ Passo("ServicoFrete")) /\ log_instancia # None =>
             /\ EntradasDepois(LogDe(ret'.valor)) = Entradas(log_instancia)
             /\ EntradasDepois(log_instancia) = Entradas(log_instancia)
       /\ \A o1 \in Referencias', o2 \in Referencias' :
             EntradasDepois(o1) = EntradasDepois(o2)]_vars

\* a LogSistema() reference and a ServicoFrete are held; the entry registered
\* through one reference and the quote's entries registered through the
\* service's log are read through the LogSistema() reference
C13_Witness ==
    /\ Guardados("LogSistema") # {}
    /\ Guardados("ServicoFrete") # {}
    /\ \E o \in Guardados("LogSistema") :
          /\ Len(Entradas(o)) = 7
          /\ Entradas(o)[1] = "[0001-01-01 00:00:00] Teste 2"
          /\ Entradas(o)[5] = "[0001-01-01 00:00:00] Adicionado: Seguro"
    /\ Len(logs) = 1

\* C16: get_logs returns a snapshot copy: get_logs leaves the log as it was
\* and returns a new list with the log's entries; changing a list it returned
\* leaves the log as it was; and a later registrar (also the registrar calls
\* of cotar_entrega) leaves every list returned earlier as it was.
C16_Copia ==
    [][/\ Passo("LogSistema.get_logs") =>
             /\ \A o \in Referencias : EntradasDepois(o) = Entradas(o)
             /\ \A o \in 1..Len(logs') : logs'[o] # ret'.valor
             /\ ret'.valor \notin Guardados("LogSistema.get_logs")
             /\ listas'[ret'.valor.id] = Entradas(log_instancia)
       /\ Passo("list.clear") =>
             \A o \in Referencias : EntradasDepois(o) = Entradas(o)
       /\ (Passo("LogSistema.registrar") \/ Passo("ServicoFrete.cotar_entrega")) =>
             \A copia \in Guardados("LogSistema.get_logs") :
                 listas'[copia.id] = listas[copia.id]]_vars

\* a list taken after "Teste 1" still holds that entry alone after "Teste 2"
\* was registered, and a list taken later was emptied while the log kept both
C16_Witness ==
    /\ \E copia \in Guardados("LogSistema.get_logs") :
          listas[copia.id] = <<"[0001-01-01 00:00:00] Teste 1">>
    /\ \E copia \in Guardados("LogSistema.get_logs") : listas[copia.id] = <<>>
    /\ Len(Entradas(log_instancia)) = 2
    /\ Entradas(log_instancia)[2] = "[0001-01-01 00:00:00] Teste 2"

---------------------------------------------------------------------------
(* Reading decorator chains: the caller calls get_descricao() on a chain   *)
(* and on the nodes it wraps, in any order and any number of times, keeps  *)
(* the lists returned, and takes the details of quotes.                    *)

MaxLeituras == 3

\* the chains of test_ordem_decorators, which wrap the same FreteBasico, and
\* the chain cotar_entrega builds for all three add-ons
CadeiasLeitura ==
    {SeguroDecorator(PedagioDecorator(FreteBasico(Lit(50, 1), "Teste"), 1),
                     Lit(1000, 1)),
     PedagioDecorator(SeguroDecorator(FreteBasico(Lit(50, 1), "Teste"),
                                      Lit(1000, 1)), 1),
     aplicar_servicos(FreteBasico(Lit(35, 1), "Frete por Zona"),
                      <<"pedagio", "seguro", "embalagem">>)}

\* the node f and the nodes it wraps
RECURSIVE Nos(_)
Nos(f) == IF f.classe = "FreteBasico" THEN {f} ELSE {f} \cup Nos(f._frete)

InitLeitura ==
    /\ pacote = Pacote(Lit(15, 1), Lit(8, 10), "São Paulo", "Rio de Janeiro", "regional")
    /\ frete_base = None
    /\ opcao_estrategia = None
    /\ opcao_sla = None
    /\ servicos_adicionais = None
    /\ frete \in CadeiasLeitura
    /\ ret = None
    /\ LogNaoCriado
    /\ guardados = {}

\* descricoes = no.get_descricao() for the chain or a node it wraps
LerDescricao ==
    \E no \in Nos(frete) :
    \E r \in {FreteComponent_get_descricao(no, listas)} :
        /\ Cardinality(guardados) < MaxLeituras
        /\ listas' = r.listas
        /\ guardados' = guardados \cup {Guardado("get_descricao", <<no>>, r.retorno)}
        /\ ret' = Chamada("get_descricao", r.retorno)
        /\ UNCHANGED <<entradas, frete, log_instancia, log_inicializado, logs, relogio>>

\* detalhes = frete_component.get_descricao() of a quote: cotar_entrega builds
\* its own chain around a new FreteBasico
LerDetalhes ==
    \E servicos \in {<<>>, <<"seguro", "pedagio">>} :
    \E no \in {aplicar_servicos(FreteBasico(Lit(35, 1), "Frete por Zona"), servicos)} :
    \E r \in {FreteComponent_get_descricao(no, listas)} :
        /\ Cardinality(guardados) < MaxLeituras
        /\ listas' = r.listas
        /\ guardados' = guardados \cup {Guardado("Entrega.detalhes", <<no>>, r.retorno)}
        /\ ret' = Chamada("Entrega.detalhes", r.retorno)
        /\ UNCHANGED <<entradas, frete, log_instancia, log_inicializado, logs, relogio>>

NextLeitura ==
    \/ LerDescricao
    \/ LerDetalhes

SpecLeitura == InitLeitura /\ [][NextLeitura]_vars

\* the lines of a first reading of the node f: its wrapped component's lines,
\* then its own
RECURSIVE LinhasDe(_)
LinhasDe(f) ==
    IF f.classe = "FreteBasico" THEN <<descricao_propria(f)>>
    ELSE Append(LinhasDe(f._frete), descricao_propria(f))

\* C17: reading a decorator chain is repeatable: every get_descricao() call,
\* on a chain or on a node it wraps, and every quote's details, returns a list
\* object no earlier call returned, and every list returned so far, whatever
\* was read after it, holds the lines of a first reading of its node, 1 + (the
\* node's decorators) of them: no description accumulates and no list is shared.
C17_LeituraRepetivel ==
    [][/\ ret'.valor.id \notin 1..Len(listas)
       /\ \A g \in guardados' :
             /\ listas'[g.valor.id] = LinhasDe(g.args[1])
             /\ Len(listas'[g.valor.id]) = 1 + Profundidade(g.args[1])
       /\ \A g1 \in guardados', g2 \in guardados' :
             g1.args = g2.args => listas'[g1.valor.id] = listas'[g2.valor.id]]_vars

\* the outer node of the test's chain was read twice with a reading of the
\* node it wraps in between: three lists, the outer readings alike
C17_Witness ==
    /\ frete = SeguroDecorator(PedagioDecorator(FreteBasico(Lit(50, 1), "Teste"), 1),
                               Lit(1000, 1))
    /\ Len(listas) = 3
    /\ guardados = {Guardado("get_descricao", <<frete>>, Objeto("list", 1)),
                    Guardado("get_descricao", <<frete._frete>>, Objeto("list", 2)),
                    Guardado("get_descricao", <<frete>>, Objeto("list", 3))}
    /\ listas[1] = <<"Frete calculado por: Teste", "+ Pedágios (1x): R$ 8.50",
                     "+ Seguro (R$ 1000.00): R$ 20.00">>
    /\ listas[3] = listas[1]
    /\ listas[2] = <<"Frete calculado por: Teste", "+ Pedágios (1x): R$ 8.50">>

---------------------------------------------------------------------------
(* Quotes repeated: the caller holds two ServicoFrete instances and keeps  *)
(* every Entrega it is returned, as it reads it on return.                 *)

\* the quotes the caller keeps
Cotacoes == {g \in guardados : g.metodo = "ServicoFrete.cotar_entrega"}

\* servico1 = ServicoFrete(); servico2 = ServicoFrete() in a fresh process
InitCotacoes ==
    /\ pacote \in {Pacote(Lit(15, 1), Lit(8, 10), "São Paulo", "Rio de Janeiro",
                          "regional")}
    /\ frete_base = None
    /\ opcao_estrategia = None
    /\ opcao_sla = None
    /\ servicos_adicionais = None
    /\ frete = None
    /\ ret = None
    /\ \E r1 \in {ServicoFrete__init__(MemoriaInicial)} :
       \E r2 \in {ServicoFrete__init__(r1.memoria)} :
           /\ MemoriaE(r2.memoria)
           /\ guardados = {Guardado("ServicoFrete", <<"servico1">>, r1.retorno),
                           Guardado("ServicoFrete", <<"servico2">>, r2.retorno)}
    /\ relogio = 0

\* entrega = servico.cotar_entrega(pacote, e, s, sv), the k-th quote the caller
\* asks for: the entries go to the log of the service, detalhes is the list
\* the chain returns, and the caller keeps the Entrega as it reads it
Cotar ==
    \E servico \in {g \in guardados : g.metodo = "ServicoFrete"} :
    \E e \in {"1", "2"}, s \in {"2"}, sv \in {<<>>, <<"pedagio">>} :
    \E r \in {cotar_entrega(servico.valor, pacote, e, s, sv)} :
    \E m \in {LogSistema_registrar(servico.valor.log, Memoria, relogio, r.mensagens)} :
    \E d \in {FreteComponent_get_descricao(
                  aplicar_servicos(
                      FreteBasico(calcular(estrategias_get(servico.valor, e), pacote),
                                  get_nome(estrategias_get(servico.valor, e))), sv),
                  m.listas)} :
        /\ Len(Entradas(servico.valor.log)) + Len(r.mensagens) <= MaxLogs
        /\ MemoriaFica([m EXCEPT !.listas = d.listas])
        /\ guardados' = guardados \cup
              {Guardado("ServicoFrete.cotar_entrega",
                        <<Cardinality(Cotacoes) + 1, servico.args[1], pacote, e, s, sv>>,
                        [r.retorno EXCEPT !.detalhes = d.listas[d.retorno.id]])}
        /\ ret' = Chamada("ServicoFrete.cotar_entrega",
                          [r.retorno EXCEPT !.detalhes = d.retorno])
        /\ UNCHANGED <<entradas, frete, relogio>>

NextCotacoes == Cotar

SpecCotacoes == InitCotacoes /\ [][NextCotacoes]_vars

\* C11: cotar_entrega is idempotent: two quotes with the same inputs, asked of
\* the same or of different ServicoFrete instances, with any other quotes in
\* between, are read as the same Entrega (package, freight value, lead time,
\* carrier, details); the log is not compared.
C11_Idempotente ==
    \A g1 \in Cotacoes, g2 \in Cotacoes :
        SubSeq(g1.args, 3, 6) = SubSeq(g2.args, 3, 6) => g1.valor = g2.valor

\* the first and the third quote have the same inputs and were asked of
\* different instances, a quote with other inputs lying between them
C11_Witness ==
    \E g1 \in Cotacoes, g2 \in Cotacoes, g3 \in Cotacoes :
        /\ g1.args[1] = 1 /\ g2.args[1] = 2 /\ g3.args[1] = 3
        /\ g1.args[2] = "servico1" /\ g3.args[2] = "servico2"
        /\ SubSeq(g1.args, 3, 6) = SubSeq(g3.args, 3, 6)
        /\ SubSeq(g1.args, 3, 6) # SubSeq(g2.args, 3, 6)
        /\ g1.args[6] = <<"pedagio">>
        /\ g3.valor.detalhes = <<"Frete calculado por: Frete por Zona",
                                 "+ Pedágios (3x): R$ 25.50">>
        /\ g3.valor.valor_frete = Lit(7865, 100)

===========================================================================
